---- MODULE Spec2Model ----
(***************************************************************************)
(* Model of the download scheduler of Data_Kitchen                         *)
(* (src/utils/downloader.py, class DownloadManager): the queue processor   *)
(* thread, the per-file download worker threads, and the calls the GUI     *)
(* thread makes (start_batch_download, cancel_download, stop).             *)
(*                                                                         *)
(* Threads interleave at every access to shared state.  A block run under  *)
(* "with self._lock" by a worker or by the GUI thread touches only state   *)
(* that is accessed nowhere without the lock, so it is one atomic action   *)
(* enabled when the lock is free.  The queue processor is the only thread  *)
(* that keeps the lock over a wait (line 47), so its hold is a state.      *)
(*                                                                         *)
(* Spec and FairSpec are the scheduler with its callers.  CrawlSpec and    *)
(* AuthSpec are the client around it (src/views/main_window.py,            *)
(* src/utils/network.py, src/utils/config.py) against a listing server     *)
(* shaped as src/test_server.py: listing and crawling, destination paths,  *)
(* credentials and the Authorization header of each session.               *)
(***************************************************************************)
EXTENDS Integers, Sequences, FiniteSets, TLC

\* ------------------------------------------------------------------ bounds
MaxCap == 2          \* largest max_concurrent_downloads tried
MaxTasks == 2        \* files submitted in all, over all batches
MaxFaults == 1       \* directories of the server with a fault
MaxCrawls == 1       \* start_download_task calls of the client

\* DownloadManager.__init__, line 16: max_concurrent_downloads = 3
DefaultCap == 3

\* ------------------------------------------------------------------ strings
\* A Python str is a sequence of one-character strings.
Upper == <<"A","B","C","D","E","F","G","H","I","J","K","L","M",
           "N","O","P","Q","R","S","T","U","V","W","X","Y","Z">>
Lower == <<"a","b","c","d","e","f","g","h","i","j","k","l","m",
           "n","o","p","q","r","s","t","u","v","w","x","y","z">>

\* str.lower() on one character
LowerChar(c) ==
    IF \E i \in 1..Len(Upper) : Upper[i] = c
    THEN Lower[CHOOSE i \in 1..Len(Upper) : Upper[i] = c]
    ELSE c

\* str.lower()
LowerStr(s) == [i \in 1..Len(s) |-> LowerChar(s[i])]

\* str.endswith(suffix)
EndsWith(s, suffix) ==
    /\ Len(suffix) <= Len(s)
    /\ SubSeq(s, Len(s) - Len(suffix) + 1, Len(s)) = suffix

image_extensions ==
    { <<".","j","p","g">>, <<".","j","p","e","g">>, <<".","p","n","g">>,
      <<".","g","i","f">>, <<".","b","m","p">>, <<".","w","e","b","p">> }

\* Mutant of IsImage: the extension is compared without lower().
IsImageCaseSensitive(url) == \E ext \in image_extensions : EndsWith(url, ext)

\* DownloadManager._is_image
IsImage(url) == \E ext \in image_extensions : EndsWith(LowerStr(url), ext)

\* The remote files a batch may name.
URLs == { <<"a",".","P","N","G">>, <<"b",".","t","x","t">> }

\* The batches start_batch_download may be given: start_download_task calls it
\* only with a non-empty list.
Batches == UNION { [1..n -> URLs] : n \in 1..MaxTasks }

\* ------------------------------------------------------------------ paths and urls
RECURSIVE SplitFrom(_, _, _)
\* str.split('/') continued: cur is the piece being read, i the next index
SplitFrom(s, i, cur) ==
    IF i > Len(s) THEN << cur >>
    ELSE IF s[i] = "/" THEN << cur >> \o SplitFrom(s, i + 1, <<>>)
    ELSE SplitFrom(s, i + 1, Append(cur, s[i]))

\* str.split('/')
Split(s) == SplitFrom(s, 1, <<>>)

RECURSIVE Join(_)
\* '/'.join(parts)
Join(parts) ==
    IF Len(parts) = 0 THEN <<>>
    ELSE IF Len(parts) = 1 THEN parts[1]
    ELSE parts[1] \o <<"/">> \o Join(Tail(parts))

RECURSIVE RStripSlash(_)
\* str.rstrip('/')
RStripSlash(s) ==
    IF Len(s) > 0 /\ s[Len(s)] = "/" THEN RStripSlash(SubSeq(s, 1, Len(s) - 1)) ELSE s

\* str.startswith(prefix)
StartsWith(s, prefix) ==
    /\ Len(prefix) <= Len(s)
    /\ SubSeq(s, 1, Len(prefix)) = prefix

\* os.path.basename (posix): what follows the last '/'
Basename(path) == LET parts == Split(path) IN parts[Len(parts)]

\* os.path.join(a, b) (posix)
PathJoin(a, b) ==
    IF StartsWith(b, <<"/">>) THEN b
    ELSE IF a = <<>> \/ EndsWith(a, <<"/">>) THEN a \o b
    ELSE a \o <<"/">> \o b

\* list.index(x): the first position of x
IndexOf(parts, x) == CHOOSE i \in 1..Len(parts) :
                        parts[i] = x /\ \A j \in 1..(i - 1) : parts[j] # x

\* DownloadManager._get_relative_path
GetRelativePath(url, base_dir) ==
    LET base_name == Basename(base_dir)
        url_parts == Split(url)
    IN  IF \A i \in 1..Len(url_parts) : url_parts[i] # base_name
        THEN url_parts[Len(url_parts)]
        ELSE Join(SubSeq(url_parts, IndexOf(url_parts, base_name) + 1, Len(url_parts)))

\* "downloads", line 125
DownloadsDir == <<"d","o","w","n","l","o","a","d","s">>

\* start_download_task, lines 122-127: the base directory of a download task
BaseDir(url) ==
    IF EndsWith(url, <<"/">>)
    THEN PathJoin(DownloadsDir, Basename(RStripSlash(url)))
    ELSE DownloadsDir

\* start_batch_download, lines 151-152: a file's destination path
DestPath(url, base_dir) == PathJoin(base_dir, GetRelativePath(url, base_dir))

\* urllib.parse.urljoin(base, link) for a base that ends in '/' and a link
\* that is absolute ("http:..."), the parent link "../", or a relative name
UrlJoin(base, link) ==
    IF StartsWith(link, <<"h","t","t","p",":">>) THEN link
    ELSE IF link = <<".",".","/">>
    THEN LET parts == Split(base)     \* scheme, "", host, segments..., ""
         IN  IF Len(parts) <= 4 THEN base
             ELSE Join(SubSeq(parts, 1, Len(parts) - 2)) \o <<"/">>
    ELSE base \o link

\* ------------------------------------------------------------------ the remote server
\* The listing protocol's peer: a tree of directories under http://h/d/, shaped
\* as src/test_server.py builds its pages (a parent row first in every
\* directory but the server root, a title on most links), with relative links.
\*   http://h/d/      a.t  d/  e/
\*   http://h/d/d/    b.t  f/
\*   http://h/d/d/f/  g.GLS
\*   http://h/d/e/    c.gls  c.csv
D0 == <<"h","t","t","p",":","/","/","h","/","d","/">>
D1 == <<"h","t","t","p",":","/","/","h","/","d","/","d","/">>
D2 == <<"h","t","t","p",":","/","/","h","/","d","/","d","/","f","/">>
D3 == <<"h","t","t","p",":","/","/","h","/","d","/","e","/">>
Dirs == { D0, D1, D2, D3 }

\* The remote files, by url.
RemoteFiles == { D0 \o <<"a",".","t">>, D1 \o <<"b",".","t">>, D2 \o <<"g",".","G","L","S">>,
                 D3 \o <<"c",".","g","l","s">>, D3 \o <<"c",".","c","s","v">> }

\* One <tr> of the listing table: has it a <td class="link">, an <a> in it,
\* an href and a title on the <a>.
Row(href, title) ==
    [cell |-> TRUE, anchor |-> TRUE, hasHref |-> TRUE, href |-> href,
     hasTitle |-> title # <<>>, title |-> title]
NoAnchorRow == [cell |-> TRUE, anchor |-> FALSE, hasHref |-> FALSE, href |-> <<>>,
                hasTitle |-> FALSE, title |-> <<>>]
NoCellRow == [cell |-> FALSE, anchor |-> FALSE, hasHref |-> FALSE, href |-> <<>>,
              hasTitle |-> FALSE, title |-> <<>>]
NoHrefRow == [cell |-> TRUE, anchor |-> TRUE, hasHref |-> FALSE, href |-> <<>>,
              hasTitle |-> FALSE, title |-> <<>>]
ParentRow == Row(<<".",".","/">>, <<".",".">>)

\* The well-formed rows of each directory's page, in document order.
ValidRows(dir) ==
    CASE dir = D0 -> << ParentRow, Row(<<"a",".","t">>, <<"a",".","t">>), Row(<<"d","/">>, <<"d">>), Row(<<"e","/">>, <<>>) >>
      [] dir = D1 -> << ParentRow, Row(<<"b",".","t">>, <<>>), Row(<<"f","/">>, <<"f">>) >>
      [] dir = D2 -> << ParentRow, Row(<<"g",".","G","L","S">>, <<"g",".","G","L","S">>) >>
      [] dir = D3 -> << ParentRow, Row(<<"c",".","g","l","s">>, <<"c",".","g","l","s">>),
                     Row(<<"c",".","c","s","v">>, <<"c",".","c","s","v">>) >>

\* What can be wrong with a directory's page.
Faults == { "ok", "noanchor", "nocell", "nohref", "notable", "500", "dotdot" }

\* rows with the row bad put before, between and after them
Interleave(rows, bad) ==
    << bad, rows[1], bad >> \o SubSeq(rows, 2, Len(rows)) \o << bad >>

\* rows with the title ".." on every link but the parent link
TitledDotDot(rows) ==
    [i \in 1..Len(rows) |->
        IF rows[i] = ParentRow THEN rows[i] ELSE Row(rows[i].href, <<".",".">>)]

\* The <tr> rows of the page the server sends for dir.
PageRows(dir, fault) ==
    CASE fault = "noanchor" -> Interleave(ValidRows(dir), NoAnchorRow)
      [] fault = "nocell"   -> Interleave(ValidRows(dir), NoCellRow)
      [] fault = "nohref"   -> Interleave(ValidRows(dir), NoHrefRow)
      [] fault = "dotdot"   -> TitledDotDot(ValidRows(dir))
      [] OTHER              -> ValidRows(dir)

\* The server's faults are a set of [dir, fault], one at most for a directory;
\* a directory without one has a well-formed page.
FaultOf(rem, dir) ==
    IF \E p \in rem : p.dir = dir
    THEN (CHOOSE p \in rem : p.dir = dir).fault
    ELSE "ok"

\* src/test_server.py, lines 50-52
ValidCreds == [username |-> "test", password |-> "password"]
StaleCreds == [username |-> "test", password |-> "old"]
NoCreds == [username |-> "", password |-> ""]

\* ConfigManager.get_auth_header, lines 26-35: the Authorization header is
\* "Basic " + base64(username:password), kept as the pair it encodes
\* (base64 is one-to-one); NoHeader when either is empty.
NoHeader == [scheme |-> "none", username |-> "", password |-> ""]
BasicHeader(c) == [scheme |-> "Basic", username |-> c.username, password |-> c.password]
GetAuthHeader(config) ==
    IF config.username # "" /\ config.password # "" THEN BasicHeader(config) ELSE NoHeader

\* The status the server answers a GET with (requires_auth, then the route).
Status(url, auth, rem) ==
    IF auth # BasicHeader(ValidCreds) THEN "401"
    ELSE IF url \in Dirs THEN (IF FaultOf(rem, url) = "500" THEN "500" ELSE "200")
    ELSE IF url \in RemoteFiles THEN "200"
    ELSE "404"

\* ------------------------------------------------------------------ NetworkManager
\* str(e): the message of the exception
NoError == <<>>
Reason(status) ==
    CASE status = "401" -> <<"4","0","1"," ","C","l","i","e","n","t"," ","E","r","r","o","r",":"," ","U","n","a","u","t","h","o","r","i","z","e","d"," ","f","o","r"," ","u","r","l",":"," ">>
      [] status = "404" -> <<"4","0","4"," ","C","l","i","e","n","t"," ","E","r","r","o","r",":"," ","N","o","t"," ","F","o","u","n","d"," ","f","o","r"," ","u","r","l",":"," ">>
      [] status = "500" -> <<"5","0","0"," ","S","e","r","v","e","r"," ","E","r","r","o","r",":"," ","I","n","t","e","r","n","a","l"," ","S","e","r","v","e","r"," ","E","r","r","o","r"," ","f","o","r"," ","u","r","l",":"," ">>
\* response.raise_for_status() (lines 49 and 136)
HttpError(status, url) == Reason(status) \o url
\* None.find(...) (lines 52 and 56)
AttributeError == <<"'","N","o","n","e","T","y","p","e","'"," ","o","b","j","e","c","t"," ","h","a","s"," ","n","o"," ","a","t","t","r","i","b","u","t","e"," ","'","f","i","n","d","'">>
\* link_tag['href'] (line 60)
KeyError == <<"'","h","r","e","f","'">>

\* sub in s
Contains(sub, s) ==
    \E i \in 0..(Len(s) - Len(sub)) : SubSeq(s, i + 1, i + Len(sub)) = sub

FileItem(name, is_directory, url) ==
    [name |-> name, is_directory |-> is_directory, url |-> url]

\* list_directory, lines 56-103: the loop body for one row
ParseRow(row, url) ==
    IF ~ row.cell THEN [err |-> AttributeError, items |-> <<>>]
    ELSE IF ~ row.anchor THEN [err |-> NoError, items |-> <<>>]
    ELSE IF ~ row.hasHref THEN [err |-> KeyError, items |-> <<>>]
    ELSE IF row.href = <<".",".","/">>
    THEN [err |-> NoError, items |-> << FileItem(<<".",".">>, TRUE, UrlJoin(url, row.href)) >>]
    ELSE [err |-> NoError,
          items |-> << FileItem(IF row.hasTitle THEN row.title ELSE row.href,
                                EndsWith(row.href, <<"/">>),
                                UrlJoin(url, row.href)) >>]

RECURSIVE ParseRows(_, _, _, _)
\* list_directory, lines 54-105: the loop over the rows from row i on; an
\* exception ends the call
ParseRows(rows, i, url, items) ==
    IF i > Len(rows) THEN [err |-> NoError, items |-> items]
    ELSE LET r == ParseRow(rows[i], url)
         IN  IF r.err # NoError THEN [err |-> r.err, items |-> <<>>]
             ELSE ParseRows(rows, i + 1, url, items \o r.items)

\* NetworkManager.list_directory, lines 43-105, with the session header auth
ListDirectory(url0, auth, rem) ==
    LET url == IF EndsWith(url0, <<"/">>) THEN url0 ELSE url0 \o <<"/">>
        status == Status(url, auth, rem)
    IN  IF status # "200" THEN [err |-> HttpError(status, url), items |-> <<>>]
        ELSE IF FaultOf(rem, url) = "notable" THEN [err |-> AttributeError, items |-> <<>>]
        ELSE ParseRows(PageRows(url, FaultOf(rem, url)), 1, url, <<>>)

RECURSIVE CrawlItemsFlat(_, _, _, _)
\* Mutant of CrawlItems: a subdirectory is returned as an item instead of
\* being descended into.
CrawlItemsFlat(items, i, auth, rem) ==
    IF i > Len(items) THEN <<>>
    ELSE LET item == items[i]
             rest == CrawlItemsFlat(items, i + 1, auth, rem)
         IN  IF item.name = <<".",".">> THEN rest
             ELSE << item >> \o rest

RECURSIVE GetAllDownloadableFiles(_, _, _)
RECURSIVE CrawlItemsAbort(_, _, _, _)
\* Mutant of CrawlItems: the exception of a subdirectory's listing is not
\* caught in the recursive call and ends the loop of the caller.
CrawlItemsAbort(items, i, auth, rem) ==
    IF i > Len(items) THEN <<>>
    ELSE LET item == items[i]
             rest == CrawlItemsAbort(items, i + 1, auth, rem)
         IN  IF item.name = <<".",".">> THEN rest
             ELSE IF item.is_directory
             THEN IF ListDirectory(item.url, auth, rem).err # NoError THEN <<>>
                  ELSE GetAllDownloadableFiles(item.url, auth, rem) \o rest
             ELSE << item >> \o rest

RECURSIVE CrawlItems(_, _, _, _)
\* get_all_downloadable_files, lines 156-166: the loop over the items from i on
CrawlItems(items, i, auth, rem) ==
    IF i > Len(items) THEN <<>>
    ELSE LET item == items[i]
             rest == CrawlItems(items, i + 1, auth, rem)
         IN  IF item.name = <<".",".">> THEN rest
             ELSE IF item.is_directory
             THEN GetAllDownloadableFiles(item.url, auth, rem) \o rest
             ELSE << item >> \o rest

\* NetworkManager.get_all_downloadable_files, lines 139-170: an exception of
\* list_directory is caught (and printed) and the files so far, none, returned
GetAllDownloadableFiles(url, auth, rem) ==
    IF ~ EndsWith(url, <<"/">>)
    THEN << FileItem(Basename(url), FALSE, url) >>
    ELSE LET listing == ListDirectory(url, auth, rem)
         IN  IF listing.err # NoError THEN <<>>
             ELSE CrawlItems(listing.items, 1, auth, rem)

\* One GET as the server sees it.
Request(url, auth, rem) == [url |-> url, auth |-> auth, status |-> Status(url, auth, rem)]

RECURSIVE CrawlRequests(_, _, _)
\* The GETs get_all_downloadable_files(url) makes: one per list_directory
\* call (line 48), for url and for every directory the crawl descends into.
CrawlRequests(url, auth, rem) ==
    IF ~ EndsWith(url, <<"/">>) THEN {}
    ELSE LET listing == ListDirectory(url, auth, rem)
             subdirs == { listing.items[i].url : i \in
                            { j \in 1..Len(listing.items) :
                                /\ listing.items[j].name # <<".",".">>
                                /\ listing.items[j].is_directory } }
         IN  { Request(url, auth, rem) }
                 \cup UNION { CrawlRequests(d, auth, rem) : d \in subdirs }

\* ------------------------------------------------------------------ state
VARIABLES
    cap,            \* self._max_concurrent_downloads
    active,         \* self._active_downloads: url -> worker (index in workers)
    queue,          \* self._download_queue: FIFO of tasks
    lock,           \* self._lock: "free", or "feeder" while the processor holds it
    stopQueue,      \* self._stop_queue
    totalFiles,     \* self._total_files
    completedFiles, \* self._completed_files
    feederPc,       \* position of the _process_queue thread
    feederTask,     \* the task _process_queue has taken from the queue
    workers,        \* the _download_worker threads created so far, in creation order;
                    \* seq is the counter value the worker's file was counted as,
                    \* io how far its file I/O went: "none", "tried" (makedirs, GET
                    \* or write raised) or "written" (GET made and body written),
                    \* errs the download_error events it has emitted,
                    \* emitted the signals it has emitted, in order
    guiPc,          \* position of the GUI thread inside a DownloadManager call
    pending,        \* files start_batch_download has still to put
    batchSkip,      \* skip_images of the batch being / last submitted
    submitted,      \* every task put so far, in put order (a task's id is its rank)
    nBatches,       \* start_batch_download calls so far
    overlap,        \* a batch was submitted while an earlier one was unfinished
    lastOverall,    \* last overall_progress_updated value of the batch, <<>> if none
    batchComplete,  \* all_downloads_completed events since the batch was submitted
    remote,         \* the server: the faults of its directories' pages
    settingsFile,   \* the credentials in settings.json
    winConfig,      \* MainWindow.config.config
    netConfig,      \* MainWindow.network.config.config
    dlConfig,       \* MainWindow.downloader.network.config.config
    netSession,     \* Authorization header of MainWindow.network.session
    dlSession,      \* Authorization header of MainWindow.downloader.network.session
    refreshed,      \* the credentials last given to set_credentials and not
                    \* logged out or replaced for the session since; NoCreds if none
    lastOp,         \* the last operation of the client
    navigation,     \* what handle_navigation got from list_directory in lastOp
    crawled,        \* what start_download_task got from the crawl in lastOp
    dests,          \* dest_path of every task put so far, in put order
    events,         \* the download_error events emitted in lastOp
    requests,       \* the GETs sent in lastOp
    written         \* the local files written in lastOp: task, path and bytes

vars == << cap, active, queue, lock, stopQueue, totalFiles, completedFiles,
           feederPc, feederTask, workers, guiPc, pending, batchSkip, submitted,
           nBatches, overlap, lastOverall, batchComplete,
           remote, settingsFile, winConfig, netConfig, dlConfig, netSession,
           dlSession, refreshed, lastOp, navigation, crawled, dests, events,
           requests, written >>

\* the state of the client around the DownloadManager's scheduling
clientVars == << remote, settingsFile, winConfig, netConfig, dlConfig, netSession,
                 dlSession, refreshed, lastOp, navigation, crawled, dests, events,
                 requests, written >>

NoTask == [id |-> 0, url |-> <<>>, skip |-> FALSE, batch |-> 0]

RECURSIVE RemotesUpTo(_)
\* The servers with at most n faulty directories.
RemotesUpTo(n) ==
    IF n = 0 THEN { {} }
    ELSE LET fewer == RemotesUpTo(n - 1)
         IN  fewer \cup
             { rem \cup { [dir |-> d, fault |-> f] } :
                 rem \in fewer,
                 d \in Dirs,
                 f \in Faults \ { "ok" } }

\* What can be wrong on the server: at most MaxFaults directories have a fault.
Remotes ==
    { rem \in RemotesUpTo(MaxFaults) :
        \A p, q \in rem : p.dir = q.dir => p = q }

NoOp == [name |-> "none", url |-> <<>>]
NoListing == [err |-> NoError, items |-> <<>>]

\* MainWindow.__init__ (src/views/main_window.py lines 17-19): three
\* ConfigManagers load settings.json, and each NetworkManager sets its
\* session's header from its own (src/utils/network.py lines 23-27).  The
\* base_url the configuration also holds is read by no request.
Construct(file) ==
    /\ settingsFile = file
    /\ winConfig = file
    /\ netConfig = file
    /\ dlConfig = file
    /\ netSession = GetAuthHeader(file)
    /\ dlSession = GetAuthHeader(file)
    /\ refreshed = NoCreds
    /\ lastOp = NoOp
    /\ navigation = NoListing
    /\ crawled = <<>>
    /\ dests = <<>>
    /\ events = <<>>
    /\ requests = {}
    /\ written = {}

\* DownloadManager.__init__ (lines 16-29), but for the cap;
\* _start_queue_processor starts the processor thread.
DownloadManagerInit ==
    /\ active = <<>>
    /\ queue = <<>>
    /\ lock = "free"
    /\ stopQueue = FALSE
    /\ totalFiles = 0
    /\ completedFiles = 0
    /\ feederPc = "top"
    /\ feederTask = NoTask
    /\ workers = <<>>
    /\ guiPc = "idle"
    /\ pending = <<>>
    /\ batchSkip = FALSE
    /\ submitted = <<>>
    /\ nBatches = 0
    /\ overlap = FALSE
    /\ lastOverall = <<>>
    /\ batchComplete = 0

\* The DownloadManager alone, with any cap, its caller handing it batches:
\* no credentials stored and a server without faults.
Init ==
    /\ cap \in 1..MaxCap
    /\ DownloadManagerInit
    /\ remote = {}
    /\ Construct(NoCreds)

\* The client as MainWindow builds it, against any server of Remotes, with
\* credentials in settings.json that the server accepts or rejects.
CrawlInit ==
    /\ cap = DefaultCap
    /\ DownloadManagerInit
    /\ remote \in Remotes
    /\ \E file \in { ValidCreds, StaleCreds } : Construct(file)

\* The client as MainWindow builds it, against a server without faults, with
\* any of the credentials, or none, in settings.json.
AuthInit ==
    /\ cap = DefaultCap
    /\ DownloadManagerInit
    /\ remote = {}
    /\ \E file \in { NoCreds, ValidCreds, StaleCreds } : Construct(file)

\* ------------------------------------------------------------------ helpers
\* dict[key] = value
DictSet(d, k, v) == [x \in (DOMAIN d) \cup {k} |-> IF x = k THEN v ELSE d[x]]

\* dict.pop(key, None) / del dict[key]
DictPop(d, k) == [x \in (DOMAIN d) \ {k} |-> d[x]]

\* Mutant of AtCap: the comparison is off by one.
AtCapOffByOne(n, c) == n > c

\* line 45: len(self._active_downloads) >= self._max_concurrent_downloads
AtCap(n, c) == n >= c

\* Mutant of QueuePut: the queue is last-in first-out.
QueuePutFront(q, item) == <<item>> \o q

\* queue.Queue.put
QueuePut(q, item) == Append(q, item)

\* Mutant of QueueRest: get leaves the item in the queue.
QueueRestKeeps(q) == q

\* queue.Queue.get: the item handed out, and the queue left behind
QueueFront(q) == Head(q)
QueueRest(q) == Tail(q)

\* Mutant of Progress: the share of files still to do.
ProgressRemaining(c, t) == << (t - c) * 100, t >>

\* lines 75, 105: (completed / total) * 100, kept as the exact fraction
\* <<numerator, denominator>>
Progress(c, t) == << c * 100, t >>

\* p <= q for two progress values
ProgressLeq(p, q) == p[1] * q[2] <= q[1] * p[2]

\* Mutant of BatchDone: the comparison is <= instead of ==.
BatchDoneLeq(c, t) == c <= t

\* line 109: self._completed_files == self._total_files
BatchDone(c, t) == c = t

\* A Qt signal emitted by a worker, with its argument (<<>> when it is not modelled).
Signal(name, value) == [signal |-> name, value |-> value]
DownloadCompleted == Signal("download_completed", <<>>)
DownloadError == Signal("download_error", <<>>)
OverallProgress(c, t) == Signal("overall_progress_updated", Progress(c, t))
AllDownloadsCompleted == Signal("all_downloads_completed", <<>>)

SetPc(w, pc) == [workers EXCEPT ![w].pc = pc]

\* Workers started and not yet returned.
InFlight == { w \in 1..Len(workers) : workers[w].pc \in {"run", "finally"} }

\* Some task of a batch is still pending, queued, held by the processor or running.
Unfinished ==
    \/ pending # <<>>
    \/ queue # <<>>
    \/ feederPc = "start"
    \/ \E w \in 1..Len(workers) : workers[w].pc # "done"

\* ------------------------------------------------------------------ _process_queue
\* line 41: while not self._stop_queue
FeederTop ==
    /\ feederPc = "top"
    /\ feederPc' = IF stopQueue THEN "exited" ELSE "check"
    /\ UNCHANGED << cap, active, queue, lock, stopQueue, totalFiles, completedFiles,
                    feederTask, workers, guiPc, pending, batchSkip, submitted,
                    nBatches, overlap, lastOverall, batchComplete >>
    /\ UNCHANGED clientVars

\* lines 44-48: under the lock, at the cap the thread waits 0.1 s with the lock held
FeederCheck ==
    /\ feederPc = "check"
    /\ lock = "free"
    /\ IF AtCap(Cardinality(DOMAIN active), cap)
       THEN /\ lock' = "feeder"
            /\ feederPc' = "sleep"
       ELSE /\ lock' = lock
            /\ feederPc' = "get"
    /\ UNCHANGED << cap, active, queue, stopQueue, totalFiles, completedFiles,
                    feederTask, workers, guiPc, pending, batchSkip, submitted,
                    nBatches, overlap, lastOverall, batchComplete >>
    /\ UNCHANGED clientVars

\* lines 47-48: the wait ends, the lock is released, continue
FeederWake ==
    /\ feederPc = "sleep"
    /\ lock' = "free"
    /\ feederPc' = "top"
    /\ UNCHANGED << cap, active, queue, stopQueue, totalFiles, completedFiles,
                    feederTask, workers, guiPc, pending, batchSkip, submitted,
                    nBatches, overlap, lastOverall, batchComplete >>
    /\ UNCHANGED clientVars

\* line 52: self._download_queue.get(timeout=1) returns a task
FeederGet ==
    /\ feederPc = "get"
    /\ queue # <<>>
    /\ feederTask' = QueueFront(queue)
    /\ queue' = QueueRest(queue)
    /\ feederPc' = "start"
    /\ UNCHANGED << cap, active, lock, stopQueue, totalFiles, completedFiles,
                    workers, guiPc, pending, batchSkip, submitted,
                    nBatches, overlap, lastOverall, batchComplete >>
    /\ UNCHANGED clientVars

\* lines 53-54: queue.Empty after the timeout, continue
FeederTimeout ==
    /\ feederPc = "get"
    /\ queue = <<>>
    /\ feederPc' = "top"
    /\ UNCHANGED << cap, active, queue, lock, stopQueue, totalFiles, completedFiles,
                    feederTask, workers, guiPc, pending, batchSkip, submitted,
                    nBatches, overlap, lastOverall, batchComplete >>
    /\ UNCHANGED clientVars

\* lines 57-63: create the thread, record it under the lock, start it
FeederStart ==
    /\ feederPc = "start"
    /\ lock = "free"
    /\ workers' = Append(workers, [task |-> feederTask.id, url |-> feederTask.url,
                                   skip |-> feederTask.skip, batch |-> feederTask.batch,
                                   pc |-> "run", outcome |-> "none", seq |-> 0,
                                   io |-> "none", errs |-> 0, emitted |-> <<>>])
    /\ active' = DictSet(active, feederTask.url, Len(workers) + 1)
    /\ feederTask' = NoTask
    /\ feederPc' = "top"
    /\ UNCHANGED << cap, queue, lock, stopQueue, totalFiles, completedFiles,
                    guiPc, pending, batchSkip, submitted,
                    nBatches, overlap, lastOverall, batchComplete >>
    /\ UNCHANGED clientVars

\* ------------------------------------------------------------------ _download_worker
\* lines 72-77 then 114-116: an image of a skip_images batch is counted as
\* completed under the lock, overall progress is emitted, and the worker returns
\* through the finally block.  (A division by a zero total raises inside the
\* try: the except branch reports it.)
WorkerSkip(w) ==
    /\ workers[w].pc = "run"
    /\ workers[w].skip /\ IsImage(workers[w].url)
    /\ lock = "free"
    /\ completedFiles' = completedFiles + 1
    /\ IF totalFiles = 0
       THEN /\ workers' = [workers EXCEPT ![w].pc = "finally", ![w].outcome = "err",
                                          ![w].errs = @ + 1,
                                          ![w].emitted = << DownloadError >>]
            /\ lastOverall' = lastOverall
       ELSE /\ workers' = [workers EXCEPT ![w].pc = "finally", ![w].outcome = "skip",
                                          ![w].seq = completedFiles',
                                          ![w].emitted =
                                              << OverallProgress(completedFiles', totalFiles) >>]
            /\ lastOverall' = Progress(completedFiles', totalFiles)
    /\ UNCHANGED << cap, active, queue, lock, stopQueue, totalFiles,
                    feederPc, feederTask, guiPc, pending, batchSkip, submitted,
                    nBatches, overlap, batchComplete >>
    /\ UNCHANGED clientVars

\* Mutant of WorkerSucceed: all_downloads_completed is emitted first.
WorkerSucceedCompleteFirst(w) ==
    /\ workers[w].pc = "run"
    /\ ~ (workers[w].skip /\ IsImage(workers[w].url))
    /\ lock = "free"
    /\ completedFiles' = completedFiles + 1
    /\ IF totalFiles = 0
       THEN /\ workers' = [workers EXCEPT ![w].pc = "finally", ![w].outcome = "err",
                                          ![w].io = "written", ![w].errs = @ + 1,
                                          ![w].emitted =
                                              << DownloadCompleted, DownloadError >>]
            /\ UNCHANGED << lastOverall, batchComplete >>
       ELSE /\ workers' = [workers EXCEPT ![w].pc = "finally", ![w].outcome = "ok",
                                          ![w].seq = completedFiles',
                                          ![w].io = "written",
                                          ![w].emitted =
                                              (IF BatchDone(completedFiles', totalFiles)
                                               THEN << AllDownloadsCompleted >>
                                               ELSE <<>>)
                                              \o << DownloadCompleted,
                                                    OverallProgress(completedFiles', totalFiles) >>]
            /\ lastOverall' = Progress(completedFiles', totalFiles)
            /\ batchComplete' = IF BatchDone(completedFiles', totalFiles)
                                THEN batchComplete + 1
                                ELSE batchComplete
    /\ UNCHANGED << cap, active, queue, lock, stopQueue, totalFiles,
                    feederPc, feederTask, guiPc, pending, batchSkip, submitted,
                    nBatches, overlap >>
    /\ UNCHANGED clientVars

\* lines 79-110: makedirs, the GET and the write all succeed and
\* download_completed is emitted; then, under the lock, the file is counted,
\* overall progress is emitted and, when the counter equals the total,
\* all_downloads_completed
WorkerSucceed(w) ==
    /\ workers[w].pc = "run"
    /\ ~ (workers[w].skip /\ IsImage(workers[w].url))
    /\ lock = "free"
    /\ completedFiles' = completedFiles + 1
    /\ IF totalFiles = 0
       THEN /\ workers' = [workers EXCEPT ![w].pc = "finally", ![w].outcome = "err",
                                          ![w].io = "written", ![w].errs = @ + 1,
                                          ![w].emitted =
                                              << DownloadCompleted, DownloadError >>]
            /\ UNCHANGED << lastOverall, batchComplete >>
       ELSE /\ workers' = [workers EXCEPT ![w].pc = "finally", ![w].outcome = "ok",
                                          ![w].seq = completedFiles',
                                          ![w].io = "written",
                                          ![w].emitted =
                                              << DownloadCompleted,
                                                 OverallProgress(completedFiles', totalFiles) >>
                                              \o IF BatchDone(completedFiles', totalFiles)
                                                 THEN << AllDownloadsCompleted >>
                                                 ELSE <<>>]
            /\ lastOverall' = Progress(completedFiles', totalFiles)
            /\ batchComplete' = IF BatchDone(completedFiles', totalFiles)
                                THEN batchComplete + 1
                                ELSE batchComplete
    /\ UNCHANGED << cap, active, queue, lock, stopQueue, totalFiles,
                    feederPc, feederTask, guiPc, pending, batchSkip, submitted,
                    nBatches, overlap >>
    /\ UNCHANGED clientVars

\* Mutant of WorkerFail: a failed file is counted as completed.
WorkerFailCounted(w) ==
    /\ workers[w].pc = "run"
    /\ ~ (workers[w].skip /\ IsImage(workers[w].url))
    /\ lock = "free"
    /\ completedFiles' = completedFiles + 1
    /\ workers' = [workers EXCEPT ![w].pc = "finally", ![w].outcome = "err",
                                   ![w].io = "tried", ![w].errs = @ + 1,
                                   ![w].emitted = << DownloadError >>]
    /\ UNCHANGED << cap, active, queue, lock, stopQueue, totalFiles,
                    feederPc, feederTask, guiPc, pending, batchSkip, submitted,
                    nBatches, overlap, lastOverall, batchComplete >>
    /\ UNCHANGED clientVars

\* Mutant of WorkerFail: the registry entry is dropped on the success path
\* only, so a failed worker returns without the pop of lines 114-116.
WorkerFailKeepsEntry(w) ==
    /\ workers[w].pc = "run"
    /\ ~ (workers[w].skip /\ IsImage(workers[w].url))
    /\ workers' = [workers EXCEPT ![w].pc = "done", ![w].outcome = "err",
                                   ![w].io = "tried", ![w].errs = @ + 1,
                                   ![w].emitted = << DownloadError >>]
    /\ UNCHANGED << cap, active, queue, lock, stopQueue, totalFiles, completedFiles,
                    feederPc, feederTask, guiPc, pending, batchSkip, submitted,
                    nBatches, overlap, lastOverall, batchComplete >>
    /\ UNCHANGED clientVars

\* lines 79-99 raise (network error, non-2xx status, filesystem error);
\* lines 112-113: download_error is emitted, the counter is left alone
WorkerFail(w) ==
    /\ workers[w].pc = "run"
    /\ ~ (workers[w].skip /\ IsImage(workers[w].url))
    /\ workers' = [workers EXCEPT ![w].pc = "finally", ![w].outcome = "err",
                                   ![w].io = "tried", ![w].errs = @ + 1,
                                   ![w].emitted = << DownloadError >>]
    /\ UNCHANGED << cap, active, queue, lock, stopQueue, totalFiles, completedFiles,
                    feederPc, feederTask, guiPc, pending, batchSkip, submitted,
                    nBatches, overlap, lastOverall, batchComplete >>
    /\ UNCHANGED clientVars

\* Mutant of WorkerFinally: the worker returns without removing its entry.
WorkerFinallyKeepsEntry(w) ==
    /\ workers[w].pc = "finally"
    /\ lock = "free"
    /\ workers' = SetPc(w, "done")
    /\ UNCHANGED << cap, active, queue, lock, stopQueue, totalFiles, completedFiles,
                    feederPc, feederTask, guiPc, pending, batchSkip, submitted,
                    nBatches, overlap, lastOverall, batchComplete >>
    /\ UNCHANGED clientVars

\* lines 114-116: finally, under the lock, self._active_downloads.pop(url, None)
WorkerFinally(w) ==
    /\ workers[w].pc = "finally"
    /\ lock = "free"
    /\ active' = DictPop(active, workers[w].url)
    /\ workers' = SetPc(w, "done")
    /\ UNCHANGED << cap, queue, lock, stopQueue, totalFiles, completedFiles,
                    feederPc, feederTask, guiPc, pending, batchSkip, submitted,
                    nBatches, overlap, lastOverall, batchComplete >>
    /\ UNCHANGED clientVars

\* ------------------------------------------------------------------ GUI thread
\* start_batch_download, lines 145-147: reset the batch counters under the lock
SubmitBegin(files, skip) ==
    /\ guiPc = "idle"
    /\ Len(submitted) + Len(files) <= MaxTasks
    /\ lock = "free"
    /\ totalFiles' = Len(files)
    /\ completedFiles' = 0
    /\ pending' = files
    /\ batchSkip' = skip
    /\ guiPc' = "putting"
    /\ nBatches' = nBatches + 1
    /\ overlap' = (overlap \/ Unfinished)
    /\ lastOverall' = <<>>
    /\ batchComplete' = 0
    /\ UNCHANGED << cap, active, queue, lock, stopQueue,
                    feederPc, feederTask, workers, submitted >>
    /\ UNCHANGED clientVars

\* start_batch_download, lines 149-153: put the next file's task
SubmitPut ==
    /\ guiPc = "putting"
    /\ LET task == [id |-> Len(submitted) + 1, url |-> Head(pending),
                    skip |-> batchSkip, batch |-> nBatches]
       IN  /\ queue' = QueuePut(queue, task)
           /\ submitted' = Append(submitted, task)
    /\ pending' = Tail(pending)
    /\ guiPc' = IF Tail(pending) = <<>> THEN "idle" ELSE "putting"
    /\ UNCHANGED << cap, active, lock, stopQueue, totalFiles, completedFiles,
                    feederPc, feederTask, workers, batchSkip,
                    nBatches, overlap, lastOverall, batchComplete >>
    /\ UNCHANGED clientVars

\* Mutant of CancelDownload: the call interrupts the worker of the url, which
\* returns without counting its file.
CancelDownloadInterrupts(url) ==
    /\ guiPc = "idle"
    /\ lock = "free"
    /\ url \in DOMAIN active
    /\ active' = DictPop(active, url)
    /\ workers' = [w \in 1..Len(workers) |->
                     IF workers[w].url = url /\ workers[w].pc = "run"
                     THEN [workers[w] EXCEPT !.pc = "done"]
                     ELSE workers[w]]
    /\ UNCHANGED << cap, queue, lock, stopQueue, totalFiles, completedFiles,
                    feederPc, feederTask, guiPc, pending, batchSkip, submitted,
                    nBatches, overlap, lastOverall, batchComplete >>
    /\ UNCHANGED clientVars

\* cancel_download, lines 196-200 (a call for a url that is not active changes nothing)
CancelDownload(url) ==
    /\ guiPc = "idle"
    /\ lock = "free"
    /\ url \in DOMAIN active
    /\ active' = DictPop(active, url)
    /\ UNCHANGED << cap, queue, lock, stopQueue, totalFiles, completedFiles,
                    feederPc, feederTask, workers, guiPc, pending, batchSkip, submitted,
                    nBatches, overlap, lastOverall, batchComplete >>
    /\ UNCHANGED clientVars

\* stop, line 204: self._stop_queue = True (stop is called once, when the
\* main window closes: src/views/main_window.py line 249)
StopFlag ==
    /\ guiPc = "idle"
    /\ ~ stopQueue
    /\ stopQueue' = TRUE
    /\ guiPc' = "stopping"
    /\ UNCHANGED << cap, active, queue, lock, totalFiles, completedFiles,
                    feederPc, feederTask, workers, pending, batchSkip, submitted,
                    nBatches, overlap, lastOverall, batchComplete >>
    /\ UNCHANGED clientVars

\* Mutant of StopClear: stop also resets the completed counter.
StopClearResets ==
    /\ guiPc = "stopping"
    /\ lock = "free"
    /\ active' = <<>>
    /\ completedFiles' = 0
    /\ guiPc' = "idle"
    /\ UNCHANGED << cap, queue, lock, stopQueue, totalFiles,
                    feederPc, feederTask, workers, pending, batchSkip, submitted,
                    nBatches, overlap, lastOverall, batchComplete >>
    /\ UNCHANGED clientVars

\* stop, lines 205-209: clear the registry under the lock; join(timeout=1)
\* returns whether or not the processor thread has ended
StopClear ==
    /\ guiPc = "stopping"
    /\ lock = "free"
    /\ active' = <<>>
    /\ guiPc' = "idle"
    /\ UNCHANGED << cap, queue, lock, stopQueue, totalFiles, completedFiles,
                    feederPc, feederTask, workers, pending, batchSkip, submitted,
                    nBatches, overlap, lastOverall, batchComplete >>
    /\ UNCHANGED clientVars

\* ------------------------------------------------------------------ specification
Next ==
    \/ FeederTop
    \/ FeederCheck
    \/ FeederWake
    \/ FeederGet
    \/ FeederTimeout
    \/ FeederStart
    \/ \E w \in 1..Len(workers) : WorkerSkip(w)
    \/ \E w \in 1..Len(workers) : WorkerSucceed(w)
    \/ \E w \in 1..Len(workers) : WorkerFail(w)
    \/ \E w \in 1..Len(workers) : WorkerFinally(w)
    \/ \E files \in Batches, skip \in BOOLEAN : SubmitBegin(files, skip)
    \/ SubmitPut
    \/ \E url \in URLs : CancelDownload(url)
    \/ StopFlag
    \/ StopClear

Spec == Init /\ [][Next]_vars

\* One step of worker thread w.
WorkerStep(w) ==
    /\ w \in 1..Len(workers)
    /\ \/ WorkerSkip(w)
       \/ WorkerSucceed(w)
       \/ WorkerFail(w)
       \/ WorkerFinally(w)

\* The same program under fair scheduling: every thread that can take a step
\* eventually takes one, and a thread waiting for the lock gets it at one of
\* the moments it is free (the processor releases it after each 0.1 s wait);
\* every started transfer returns.  The GUI's calls are not forced, except
\* that start_batch_download finishes its loop.
Fairness ==
    /\ WF_vars(FeederTop)
    /\ WF_vars(FeederCheck)
    /\ WF_vars(FeederWake)
    /\ WF_vars(FeederGet)
    /\ WF_vars(FeederTimeout)
    /\ WF_vars(FeederStart)
    /\ WF_vars(SubmitPut)
    /\ \A w \in 1..MaxTasks : SF_vars(WorkerStep(w))

FairSpec == Init /\ [][Next]_vars /\ Fairness

TypeOK ==
    /\ lock \in {"free", "feeder"}
    /\ feederPc \in {"top", "check", "sleep", "get", "start", "exited"}
    /\ guiPc \in {"idle", "putting", "stopping"}
    /\ DOMAIN active \subseteq URLs
    /\ completedFiles \in Nat /\ totalFiles \in Nat

\* ------------------------------------------------------------------ the client
\* The operations of MainWindow on one thread, each run to its end before the
\* next: navigation, login and logout, a download request, and the work the
\* DownloadManager's threads do for one queued task.

schedVars == << cap, active, queue, lock, stopQueue, totalFiles, completedFiles,
                feederPc, feederTask, workers, guiPc, pending, batchSkip, submitted,
                nBatches, overlap, lastOverall, batchComplete >>

\* The urls the user navigates to and asks to download.
FileUrl == D0 \o <<"a",".","t">>
DownloadUrls == Dirs \cup { FileUrl }

\* MainWindow.handle_navigation (src/views/main_window.py lines 162-192)
Navigate(url) ==
    /\ lastOp' = [name |-> "navigate", url |-> url]
    /\ navigation' = ListDirectory(url, netSession, remote)
    /\ requests' = { Request(IF EndsWith(url, <<"/">>) THEN url ELSE url \o <<"/">>,
                             netSession, remote) }
    /\ events' = <<>>
    /\ crawled' = <<>>
    /\ written' = {}
    /\ UNCHANGED << remote, settingsFile, winConfig, netConfig, dlConfig,
                    netSession, dlSession, refreshed, dests >>
    /\ UNCHANGED schedVars

\* str(e) of the OSError os.makedirs raises when the directory cannot be made
OSError == <<"P","e","r","m","i","s","s","i","o","n"," ","d","e","n","i","e","d">>

\* Mutant of StartDownloadTask: the batch counters are reset before the
\* directory is made and the crawl run.
StartDownloadTaskResetsFirst(url, skip_images) ==
    /\ guiPc = "idle"
    /\ lock = "free"
    /\ \E makedirs \in { "ok", "oserror" } :
         LET base_dir == BaseDir(url)
             files == IF makedirs = "ok"
                      THEN GetAllDownloadableFiles(url, dlSession, remote)
                      ELSE <<>>
             tasks == [i \in 1..Len(files) |->
                         [id |-> Len(submitted) + i, url |-> files[i].url,
                          skip |-> skip_images, batch |-> nBatches + 1]]
         IN  /\ crawled' = files
             /\ requests' = IF makedirs = "ok"
                            THEN CrawlRequests(url, dlSession, remote)
                            ELSE {}
             /\ IF files = <<>>
                THEN /\ events' = << [file |-> <<>>,
                                      error |-> IF makedirs = "ok"
                                                THEN <<"N","o"," ","f","i","l","e","s"," ","t","o"," ","d","o","w","n","l","o","a","d">>
                                                ELSE OSError] >>
                   /\ totalFiles' = 0
                   /\ completedFiles' = 0
                   /\ UNCHANGED << queue, submitted, dests,
                                   batchSkip, nBatches, overlap, lastOverall,
                                   batchComplete >>
                ELSE /\ nBatches < MaxCrawls
                     /\ events' = <<>>
                     /\ totalFiles' = Len(files)
                     /\ completedFiles' = 0
                     /\ queue' = queue \o tasks
                     /\ submitted' = submitted \o tasks
                     /\ dests' = dests \o [i \in 1..Len(files) |->
                                             DestPath(files[i].url, base_dir)]
                     /\ batchSkip' = skip_images
                     /\ nBatches' = nBatches + 1
                     /\ overlap' = (overlap \/ Unfinished)
                     /\ lastOverall' = <<>>
                     /\ batchComplete' = 0
    /\ lastOp' = [name |-> "crawl", url |-> url]
    /\ navigation' = NoListing
    /\ written' = {}
    /\ UNCHANGED << remote, settingsFile, winConfig, netConfig, dlConfig,
                    netSession, dlSession, refreshed >>
    /\ UNCHANGED << cap, active, lock, stopQueue, feederPc, feederTask, workers,
                    guiPc, pending >>

\* MainWindow.handle_download (lines 194-207): DownloadManager.start_download_task
\* (src/utils/downloader.py lines 118-141) and the start_batch_download it
\* calls (lines 143-153), every put included; os.makedirs (line 129) makes
\* the base directory or raises, and a batch is started only while the
\* number of batches is below MaxCrawls
StartDownloadTask(url, skip_images) ==
    /\ guiPc = "idle"
    /\ lock = "free"
    /\ \E makedirs \in { "ok", "oserror" } :
         LET base_dir == BaseDir(url)
             files == IF makedirs = "ok"
                      THEN GetAllDownloadableFiles(url, dlSession, remote)
                      ELSE <<>>
             tasks == [i \in 1..Len(files) |->
                         [id |-> Len(submitted) + i, url |-> files[i].url,
                          skip |-> skip_images, batch |-> nBatches + 1]]
         IN  /\ crawled' = files
             /\ requests' = IF makedirs = "ok"
                            THEN CrawlRequests(url, dlSession, remote)
                            ELSE {}
             /\ IF files = <<>>
                THEN /\ events' = << [file |-> <<>>,
                                      error |-> IF makedirs = "ok"
                                                THEN <<"N","o"," ","f","i","l","e","s"," ","t","o"," ","d","o","w","n","l","o","a","d">>
                                                ELSE OSError] >>
                   /\ UNCHANGED << totalFiles, completedFiles, queue, submitted, dests,
                                   batchSkip, nBatches, overlap, lastOverall,
                                   batchComplete >>
                ELSE /\ nBatches < MaxCrawls
                     /\ events' = <<>>
                     /\ totalFiles' = Len(files)
                     /\ completedFiles' = 0
                     /\ queue' = queue \o tasks
                     /\ submitted' = submitted \o tasks
                     /\ dests' = dests \o [i \in 1..Len(files) |->
                                             DestPath(files[i].url, base_dir)]
                     /\ batchSkip' = skip_images
                     /\ nBatches' = nBatches + 1
                     /\ overlap' = (overlap \/ Unfinished)
                     /\ lastOverall' = <<>>
                     /\ batchComplete' = 0
    /\ lastOp' = [name |-> "crawl", url |-> url]
    /\ navigation' = NoListing
    /\ written' = {}
    /\ UNCHANGED << remote, settingsFile, winConfig, netConfig, dlConfig,
                    netSession, dlSession, refreshed >>
    /\ UNCHANGED << cap, active, lock, stopQueue, feederPc, feederTask, workers,
                    guiPc, pending >>

\* Mutant of GlsToCsv: the extension is compared without lower().
GlsToCsvCaseSensitive(dest_path) ==
    IF EndsWith(dest_path, <<".","g","l","s">>)
    THEN SubSeq(dest_path, 1, Len(dest_path) - 4) \o <<".","c","s","v">>
    ELSE dest_path

\* _download_worker, lines 83-84
GlsToCsv(dest_path) ==
    IF EndsWith(LowerStr(dest_path), <<".","g","l","s">>)
    THEN SubSeq(dest_path, 1, Len(dest_path) - 4) \o <<".","c","s","v">>
    ELSE dest_path

\* The body the server sends for a file: its bytes, here the file's name.
Body(url) == Basename(url)

\* _download_worker, line 94: iter_content(chunk_size=8192)
ChunkSize == 8192

RECURSIVE IterContent(_, _)
\* response.iter_content(chunk_size): the body in pieces of chunk_size bytes
IterContent(body, chunk_size) ==
    IF Len(body) <= chunk_size THEN << body >>
    ELSE << SubSeq(body, 1, chunk_size) >>
             \o IterContent(SubSeq(body, chunk_size + 1, Len(body)), chunk_size)

RECURSIVE WriteChunks(_, _)
\* lines 94-96: every chunk that is not empty is written after the others
WriteChunks(chunks, i) ==
    IF i > Len(chunks) THEN <<>>
    ELSE (IF chunks[i] # <<>> THEN chunks[i] ELSE <<>>) \o WriteChunks(chunks, i + 1)

\* lines 87-96: the bytes written to the file, total_size being the
\* Content-Length header, 0 when the response has none
FileContent(body, total_size) ==
    IF total_size = 0 THEN body
    ELSE WriteChunks(IterContent(body, ChunkSize), 1)

\* The next queued task from the queue to the end of its worker, no other
\* thread stepping in between: _process_queue's get (line 52) and
\* _download_worker (lines 69-116) with the GET of download_file
\* (src/utils/network.py lines 130-137) answered by the server, with or
\* without a Content-Length header, and a disk that takes every write.
ProcessTask ==
    /\ queue # <<>>
    /\ lock = "free"
    /\ LET task == QueueFront(queue)
           dest_path == GlsToCsv(dests[task.id])
           request == Request(task.url, dlSession, remote)
           counted == completedFiles + 1
       IN  /\ queue' = QueueRest(queue)
           /\ lastOp' = [name |-> "download", url |-> task.url]
           /\ IF task.skip /\ IsImage(task.url)
              THEN /\ requests' = {}
                   /\ events' = <<>>
                   /\ written' = {}
                   /\ completedFiles' = counted
                   /\ lastOverall' = Progress(counted, totalFiles)
                   /\ UNCHANGED batchComplete
              ELSE /\ requests' = { request }
                   /\ IF request.status = "200"
                      THEN /\ events' = <<>>
                           /\ \E total_size \in { 0, Len(Body(task.url)) } :
                                written' = { [task |-> task.id, path |-> dest_path,
                                              bytes |-> FileContent(Body(task.url),
                                                                    total_size)] }
                           /\ completedFiles' = counted
                           /\ lastOverall' = Progress(counted, totalFiles)
                           /\ batchComplete' = IF counted = totalFiles
                                               THEN batchComplete + 1
                                               ELSE batchComplete
                      ELSE /\ events' = << [file |-> Basename(dest_path),
                                            error |-> HttpError(request.status, task.url)] >>
                           /\ written' = {}
                           /\ UNCHANGED << completedFiles, lastOverall, batchComplete >>
    /\ navigation' = NoListing
    /\ crawled' = <<>>
    /\ UNCHANGED << remote, settingsFile, winConfig, netConfig, dlConfig,
                    netSession, dlSession, refreshed, dests >>
    /\ UNCHANGED << cap, active, lock, stopQueue, totalFiles, feederPc, feederTask,
                    workers, guiPc, pending, batchSkip, submitted, nBatches, overlap >>

\* The client did something that sends nothing.
Quiet(name) ==
    /\ lastOp' = [name |-> name, url |-> <<>>]
    /\ navigation' = NoListing
    /\ crawled' = <<>>
    /\ events' = <<>>
    /\ requests' = {}
    /\ written' = {}

\* MainWindow.show_login_dialog, "save credentials" ticked (lines 134-143):
\* NetworkManager.set_credentials (src/utils/network.py lines 38-41) on
\* MainWindow.network, whose ConfigManager writes settings.json
\* (src/utils/config.py lines 37-43)
LoginSave(creds) ==
    /\ netConfig' = creds
    /\ settingsFile' = creds
    /\ netSession' = GetAuthHeader(creds)
    /\ refreshed' = creds
    /\ Quiet("login")
    /\ UNCHANGED << remote, winConfig, dlConfig, dlSession, dests >>
    /\ UNCHANGED schedVars

\* MainWindow.show_login_dialog, session only (lines 144-149): the header of
\* MainWindow.network.session is set and MainWindow.config cleared and saved
\* (src/utils/config.py lines 54-59)
LoginSession(creds) ==
    /\ netSession' = BasicHeader(creds)
    /\ winConfig' = NoCreds
    /\ settingsFile' = NoCreds
    /\ refreshed' = NoCreds
    /\ Quiet("login")
    /\ UNCHANGED << remote, netConfig, dlConfig, dlSession, dests >>
    /\ UNCHANGED schedVars

\* MainWindow.handle_logout (lines 151-154): MainWindow.config is cleared and
\* saved, then MainWindow.network re-reads its own configuration
HandleLogout ==
    /\ winConfig' = NoCreds
    /\ settingsFile' = NoCreds
    /\ netSession' = GetAuthHeader(netConfig)
    /\ refreshed' = NoCreds
    /\ Quiet("logout")
    /\ UNCHANGED << remote, netConfig, dlConfig, dlSession, dests >>
    /\ UNCHANGED schedVars

\* Browsing and downloading with the credentials of the start (skip_images
\* at its default: no remote file is an image).
CrawlNext ==
    \/ \E url \in Dirs : Navigate(url)
    \/ \E url \in DownloadUrls : StartDownloadTask(url, FALSE)
    \/ ProcessTask

CrawlSpec == CrawlInit /\ [][CrawlNext]_vars

\* Browsing and downloading with logins and logouts in between.
AuthNext ==
    \/ \E creds \in { ValidCreds, StaleCreds } : LoginSave(creds)
    \/ \E creds \in { ValidCreds, StaleCreds } : LoginSession(creds)
    \/ HandleLogout
    \/ \E url \in Dirs : Navigate(url)
    \/ \E url \in DownloadUrls, skip_images \in BOOLEAN : StartDownloadTask(url, skip_images)
    \/ ProcessTask

AuthSpec == AuthInit /\ [][AuthNext]_vars

\* ------------------------------------------------------------------ claims
Started == 1..Len(workers)

\* Every file of the batch has been put, started and counted or reported.
BatchFinished ==
    /\ nBatches >= 1
    /\ pending = <<>>
    /\ Cardinality({ w \in Started : workers[w].batch = nBatches
                                     /\ workers[w].outcome # "none" }) = totalFiles

\* Some file of the current batch failed.
BatchHasFailure ==
    \E w \in Started : workers[w].batch = nBatches /\ workers[w].outcome = "err"

\* C1: for any batch of N files and any cap C, also C < N, the registry
\* _active_downloads never holds more than C entries.
C1_ActiveWithinCap == Cardinality(DOMAIN active) <= cap

\* C1 witness: a batch larger than the cap, the registry full, a task still
\* queued and the processor waiting at the cap.
C1_Witness ==
    /\ nBatches = 1 /\ totalFiles > cap
    /\ Cardinality(DOMAIN active) = cap
    /\ queue # <<>>
    /\ feederPc = "sleep"

\* C2: a single batch (none other unfinished beside it) of N >= 1 files,
\* skip_images false, every transfer succeeds: all_downloads_completed is
\* emitted exactly once (never twice on the way, once when all have been
\* counted), in whatever order the workers finish.
C2_OneBatchCompleteOnce ==
    (nBatches >= 1 /\ ~ overlap /\ ~ batchSkip /\ ~ BatchHasFailure)
        => /\ batchComplete <= 1
           /\ BatchFinished => batchComplete = 1

\* C2 witness: a two-file batch all succeeded, the file started second was
\* counted first.
C2_Witness ==
    /\ nBatches = 1 /\ ~ batchSkip /\ totalFiles = 2
    /\ BatchFinished /\ ~ BatchHasFailure
    /\ workers[2].seq = 1 /\ workers[1].seq = 2
    /\ batchComplete = 1

\* C3 (as claimed): in a skip_images batch whose transfers all succeed,
\* all_downloads_completed has fired exactly once when the batch is finished,
\* whichever task finished last.
C3_SkipBatchCompleteOnce ==
    (nBatches = 1 /\ batchSkip /\ BatchFinished /\ ~ BatchHasFailure)
        => batchComplete = 1

\* C4: within a batch the overall progress values never decrease, and when
\* all N files of a single batch (none other unfinished beside it) have
\* succeeded the last value is exactly 100.
C4_ProgressMonotoneTo100 ==
    /\ [][ (nBatches' = nBatches /\ lastOverall # <<>>)
              => ProgressLeq(lastOverall, lastOverall') ]_vars
    /\ []( (~ overlap /\ BatchFinished /\ ~ BatchHasFailure)
              => (lastOverall # <<>> /\ lastOverall[1] = 100 * lastOverall[2]) )

\* C4 witness: a two-file batch finished in reverse start order, last value 100.
C4_Witness ==
    /\ ~ overlap /\ BatchFinished /\ ~ BatchHasFailure /\ totalFiles = 2
    /\ workers[2].seq = 1 /\ workers[1].seq = 2
    /\ lastOverall = << 200, 2 >>

\* C5: a failing transfer leaves completedFiles alone; so a batch (none other
\* unfinished beside it) with a failed file never has completedFiles =
\* totalFiles and never emits all_downloads_completed.
C5_FailureNeverCompletes ==
    /\ [][ \A w \in Started :
              (workers[w].outcome = "none" /\ workers'[w].outcome = "err")
                  => completedFiles' = completedFiles ]_vars
    /\ []( (~ overlap /\ BatchHasFailure)
              => (completedFiles < totalFiles /\ batchComplete = 0) )

\* C5 witness: a two-file batch, one file failed and returned, the other counted.
C5_Witness ==
    /\ ~ overlap /\ totalFiles = 2 /\ BatchFinished /\ BatchHasFailure
    /\ \A w \in Started : workers[w].pc = "done"
    /\ completedFiles = 1
    /\ batchComplete = 0

\* C6 (as claimed): no two workers transfer the same url at the same time.
C6_OneTransferPerUrl ==
    \A w1, w2 \in Started :
        (w1 # w2 /\ workers[w1].pc = "run" /\ workers[w2].pc = "run")
            => workers[w1].url # workers[w2].url

\* C7 (as claimed): never more than cap workers started and not yet returned.
C7_InFlightWithinCap == Cardinality(InFlight) <= cap

\* C8: every worker runs a task that was put, with the url and flag it was
\* put with, and no task is run by two workers.
C8_TaskClaimedOnce ==
    /\ \A w \in Started :
          \E i \in 1..Len(submitted) :
              /\ submitted[i].id = workers[w].task
              /\ submitted[i].url = workers[w].url
              /\ submitted[i].skip = workers[w].skip
    /\ \A w1, w2 \in Started : w1 # w2 => workers[w1].task # workers[w2].task

\* C8 witness: every task put has been started, and there are at least two.
C8_Witness ==
    /\ Len(submitted) >= 2
    /\ Len(workers) = Len(submitted)

\* C9: workers of one batch are started in the order the files were put;
\* completion order is free.
C9_StartInSubmissionOrder ==
    \A w1, w2 \in Started :
        (w1 < w2 /\ workers[w1].batch = workers[w2].batch)
            => workers[w1].task < workers[w2].task

\* C9 witness: two files of one batch, the second returned while the first
\* is still transferring.
C9_Witness ==
    /\ Len(workers) = 2
    /\ workers[1].batch = workers[2].batch
    /\ workers[1].pc = "run"
    /\ workers[2].pc = "done"

\* C10: completedFiles decreases only in a start_batch_download step: not in
\* stop, cancel_download, a failed transfer or a skipped image.
C10_CompletedResetOnlyBySubmit ==
    [][ completedFiles' < completedFiles => nBatches' = nBatches + 1 ]_vars

\* C10 witness: stop has run to its end with files counted, one transfer
\* failed, one image skipped.
C10_Witness ==
    /\ stopQueue /\ guiPc = "idle"
    /\ completedFiles >= 1
    /\ \E w \in Started : workers[w].outcome = "err" /\ workers[w].pc = "done"
    /\ \E w \in Started : workers[w].outcome = "skip" /\ workers[w].pc = "done"

\* C11 (as claimed): once stop() has set the flag and cleared the registry,
\* no worker is started and no entry is added to _active_downloads.
C11_NoStartAfterStop ==
    [][ (stopQueue /\ guiPc # "stopping")
           => /\ Len(workers') = Len(workers)
              /\ DOMAIN active' \subseteq DOMAIN active ]_vars

\* C20 (as claimed): no thread holds the lock while it sleeps or waits, so no
\* worker that has to take the lock finds it held by the idling processor.
C20_LockNeverHeldAcrossWait ==
    /\ ~ (lock = "feeder" /\ feederPc = "sleep")
    /\ \A w \in Started : workers[w].pc = "finally" => lock = "free"

\* The claim's own reading of "ends, case-insensitively, in an image extension".
C15_ImageUrl(url) ==
    \E ext \in { <<".","j","p","g">>, <<".","j","p","e","g">>, <<".","p","n","g">>,
                 <<".","g","i","f">>, <<".","b","m","p">>, <<".","w","e","b","p">> } :
        /\ Len(url) >= Len(ext)
        /\ \A i \in 1..Len(ext) :
              LET c == url[Len(url) - Len(ext) + i]
              IN  c = ext[i] \/ \E k \in 1..Len(Upper) : Upper[k] = c /\ Lower[k] = ext[i]

\* C15: in a skip_images batch an image task makes no request and writes no
\* file, and is counted exactly once; a non-image task of the batch is never
\* skipped, and when it returns without error its file was fetched and written.
C15_SkipImagesOnly ==
    /\ []( \A w \in Started :
             workers[w].skip =>
                IF C15_ImageUrl(workers[w].url)
                THEN /\ workers[w].io = "none"
                     /\ workers[w].outcome \in {"none", "skip"}
                ELSE /\ workers[w].outcome # "skip"
                     /\ (workers[w].outcome = "ok") => workers[w].io = "written" )
    /\ [][ \A w \in Started :
             (workers[w].skip /\ C15_ImageUrl(workers[w].url)) =>
                /\ (workers[w].pc = "run" /\ workers'[w].pc # "run")
                      => completedFiles' = completedFiles + 1
                /\ (workers[w].pc # "run" /\ nBatches' = nBatches)
                      => completedFiles' >= completedFiles
                /\ workers[w].pc # "run" => workers'[w].seq = workers[w].seq ]_vars

\* C15 witness: a skip_images batch of a.PNG and b.txt, both returned: the image
\* untouched and counted, the text file written.
C15_Witness ==
    /\ nBatches = 1 /\ batchSkip /\ totalFiles = 2 /\ completedFiles = 2
    /\ \E w \in Started : /\ workers[w].url = <<"a",".","P","N","G">>
                          /\ workers[w].outcome = "skip" /\ workers[w].io = "none"
                          /\ workers[w].pc = "done"
    /\ \E w \in Started : /\ workers[w].url = <<"b",".","t","x","t">>
                          /\ workers[w].outcome = "ok" /\ workers[w].io = "written"
                          /\ workers[w].pc = "done"

\* Every task put so far has been started and its worker has returned.
AllReturned ==
    /\ pending = <<>>
    /\ Len(workers) = Len(submitted)
    /\ \A w \in Started : workers[w].pc = "done"

\* C12: a failed transfer emits exactly one download_error (and no other
\* worker emits one for it), its worker leaves no entry in the registry when
\* it returns, and every other task put is still started and run to its own
\* outcome, unless stop() is called.
C12_FailureIsolated ==
    /\ []( \A w \in Started :
             /\ workers[w].errs = (IF workers[w].outcome = "err" THEN 1 ELSE 0)
             /\ workers[w].pc = "done"
                   => ~ (workers[w].url \in DOMAIN active
                         /\ active[workers[w].url] = w) )
    /\ [][ \A w \in Started :
             (workers[w].outcome = "err" /\ workers[w].pc # "done"
                                         /\ workers'[w].pc = "done")
                 => workers[w].url \notin DOMAIN active' ]_vars
    /\ ( (\E w \in Started : workers[w].outcome = "err")
            ~> (AllReturned \/ stopQueue) )

\* C12 witness: the first of two files failed and returned, the second was
\* started after that and succeeded.
C12_Witness ==
    /\ Len(workers) = 2 /\ AllReturned /\ ~ stopQueue /\ cap = 1
    /\ workers[1].outcome = "err" /\ workers[1].errs = 1
    /\ workers[2].outcome = "ok"
    /\ workers[1].url \notin DOMAIN active

\* --- the client's claims, under CrawlSpec and AuthSpec
\* start_download_task(root) was the last operation, and it ran its crawl
\* (the crawl of a directory sends one GET at least).
Crawled(root) == lastOp = [name |-> "crawl", url |-> root] /\ requests # {}
CrawledUrls == { crawled[i].url : i \in 1..Len(crawled) }
\* The downloader's session carries the credentials the server accepts.
ValidSession == dlSession = BasicHeader(ValidCreds)
\* The remote files at any depth below root.
FilesBelow(root) == { f \in RemoteFiles : StartsWith(f, root) }
\* The faults that make list_directory raise.
Failing == { "nocell", "nohref", "notable", "500" }

\* C13: a 401 answer to any listing or download request, those of the crawl
\* for a download task included, reaches the consumer (handle_navigation's
\* except branch, handle_download_error) as an error whose text contains "401".
C13_Status401Surfaces ==
    (\E r \in requests : r.status = "401")
        => \/ Contains(<<"4","0","1">>, navigation.err)
           \/ \E i \in 1..Len(events) : Contains(<<"4","0","1">>, events[i].error)

\* C14: once set_credentials has refreshed the credentials, every request
\* sent afterwards, listing or download, carries their Basic header.
C14_RequestsCarryRefreshed ==
    refreshed # NoCreds => \A r \in requests : r.auth = BasicHeader(refreshed)

\* C16: the crawl of a well-formed tree returns exactly its F files, one item
\* per remote file at any depth, no directory and no parent link among them.
C16_CrawlReturnsEveryFile ==
    \A root \in Dirs :
        ( /\ Crawled(root)
          /\ ValidSession
          /\ \A d \in Dirs : StartsWith(d, root) => FaultOf(remote, d) = "ok" )
        => /\ Len(crawled) = Cardinality(FilesBelow(root))
           /\ CrawledUrls = FilesBelow(root)
           /\ \A i \in 1..Len(crawled) :
                ~ crawled[i].is_directory /\ crawled[i].name # <<".",".">>

\* C16 witness: the crawl of the whole tree returned its five files, the one
\* three directories deep among them.
C16_Witness ==
    /\ Crawled(D0)
    /\ \A d \in Dirs : FaultOf(remote, d) = "ok"
    /\ Len(crawled) = 5
    /\ D2 \o <<"g",".","G","L","S">> \in CrawledUrls

\* C17: the destination of every crawled file is base_dir joined with the
\* file's path below the root, every subdirectory kept, whatever the names
\* of the segments of the url.
C17_DestKeepsPathBelowRoot ==
    \A root \in Dirs :
        Crawled(root)
        => \A i \in 1..Len(crawled) :
             dests[Len(dests) - Len(crawled) + i] =
                 PathJoin(BaseDir(root),
                          SubSeq(crawled[i].url, Len(root) + 1, Len(crawled[i].url)))

\* C18: when the listing of one subdirectory fails (fetch or parse), the crawl
\* omits the files of that subtree only: every file of the siblings and of
\* the ancestors is returned.
C18_FailureOmitsOnlySubtree ==
    \A root \in Dirs, sub \in Dirs :
        ( /\ Crawled(root)
          /\ ValidSession
          /\ sub # root /\ StartsWith(sub, root)
          /\ FaultOf(remote, sub) \in Failing
          /\ \A d \in Dirs \ { sub } : FaultOf(remote, d) = "ok" )
        => /\ CrawledUrls = FilesBelow(root) \ FilesBelow(sub)
           /\ Len(crawled) = Cardinality(CrawledUrls)

\* C18 witness: the listing of http://h/d/d/ failed and the crawl of http://h/d/
\* returned a.t of the root and c.gls and c.csv of the sibling e/.
C18_Witness ==
    /\ Crawled(D0)
    /\ ValidSession
    /\ FaultOf(remote, D1) \in Failing
    /\ CrawledUrls = { D0 \o <<"a",".","t">>, D3 \o <<"c",".","g","l","s">>,
                       D3 \o <<"c",".","c","s","v">> }

\* C19: for a page with N valid rows and M malformed rows (no link cell, or
\* no link in it) in any order, list_directory returns the N valid entries
\* in document order and raises nothing.
C19_MalformedRowsSkipped ==
    \A url \in Dirs :
        ( /\ lastOp = [name |-> "navigate", url |-> url]
          /\ netSession = BasicHeader(ValidCreds)
          /\ FaultOf(remote, url) \in { "noanchor", "nocell" } )
        => navigation = ParseRows(ValidRows(url), 1, url, <<>>)

C22_SubmitResetsBatchAndRegistry ==
    [][ (\E files \in Batches, skip \in BOOLEAN : SubmitBegin(files, skip))
          => /\ totalFiles' = Len(pending')
             /\ completedFiles' = 0
             /\ queue' = queue
             /\ active' = <<>> ]_vars

\* C24: a successful transfer emits download_completed, then the overall
\* progress computed from the incremented counter, then, only when that
\* counter equals the total (progress 100), all_downloads_completed; so
\* all_downloads_completed never comes before the progress event of value 100.
C24_SuccessEventOrder ==
    \A w \in Started :
        workers[w].outcome = "ok"
        => LET e == workers[w].emitted
           IN  /\ Len(e) \in { 2, 3 }
               /\ e[1] = DownloadCompleted
               /\ e[2].signal = "overall_progress_updated"
               /\ e[2].value[1] = workers[w].seq * 100
               /\ Len(e) = 3 <=> e[2].value[1] = 100 * e[2].value[2]
               /\ Len(e) = 3 => e[3] = AllDownloadsCompleted

\* C24 witness: in a batch of two files the first success emitted completion
\* and progress 50, the second completion, progress 100 and batch-complete.
C24_Witness ==
    /\ Len(workers) = 2
    /\ \E w, v \in Started :
         /\ workers[w].emitted = << DownloadCompleted, OverallProgress(1, 2) >>
         /\ workers[v].emitted = << DownloadCompleted, OverallProgress(2, 2),
                                    AllDownloadsCompleted >>

\* C25: whatever the sequence of start_batch_download calls, also one made
\* while tasks of an earlier batch are queued or in flight, the completed
\* counter never exceeds the total and no overall progress exceeds 100.
C25_CompletedWithinTotal ==
    /\ completedFiles <= totalFiles
    /\ lastOverall # <<>> => ProgressLeq(lastOverall, Progress(1, 1))

\* C26: all_downloads_completed is emitted only in a state where every task
\* of the most recently submitted batch has finished, also when that batch
\* was submitted while tasks of an earlier one were queued or in flight.
C26_CompleteOnlyWhenBatchFinished ==
    [][ batchComplete' > batchComplete
          => /\ pending' = <<>>
             /\ \A t \in 1..Len(submitted') :
                  submitted'[t].batch = nBatches'
                  => \E w \in 1..Len(workers') : /\ workers'[w].task = t
                                                /\ workers'[w].outcome # "none" ]_vars

\* Nothing is left to do: every task put has been started, the queue is
\* empty, every worker has returned and the registry is empty.
Drained ==
    /\ pending = <<>>
    /\ queue = <<>>
    /\ feederPc # "start"
    /\ \A t \in 1..Len(submitted) : \E w \in Started : workers[w].task = t
    /\ \A w \in Started : workers[w].pc = "done"
    /\ DOMAIN active = {}

\* C27: under fair scheduling, every started transfer returning, and stop()
\* never called, every task put is eventually started, the queue becomes
\* empty and the registry becomes empty, and they stay so once the GUI
\* submits no more: no slot stays occupied by a finished worker and the
\* processor never deadlocks with the workers on the lock.
C27_EventuallyDrained == <>[](stopQueue \/ Drained)

\* C27 witness: two files went through a cap of one, so the second was
\* started only after the first worker had freed its slot; all is drained.
C27_Witness ==
    /\ ~ stopQueue /\ cap = 1 /\ Len(submitted) = 2 /\ Drained
    /\ feederPc \in { "top", "check", "get" } /\ lock = "free"

\* --- the client's claims, continued (CrawlSpec and AuthSpec)
\* C23: a task whose destination ends in .gls, in any letter case, is written
\* at the same path with .csv for the extension; nothing is written at the
\* .gls path, and the bytes written are the response body.
C23_GlsWrittenAsCsv ==
    \A f \in written :
        LET dest_path == dests[f.task]
        IN  /\ f.bytes = Body(submitted[f.task].url)
            /\ written = { f }
            /\ EndsWith(LowerStr(dest_path), <<".","g","l","s">>)
                 => /\ f.path = SubSeq(dest_path, 1, Len(dest_path) - 4) \o <<".","c","s","v">>
                    /\ f.path # dest_path
            /\ ~ EndsWith(LowerStr(dest_path), <<".","g","l","s">>) => f.path = dest_path

\* C23 witness: the file queued for downloads/d/d/f/g.GLS was written as g.csv.
C23_Witness ==
    \E f \in written :
        /\ EndsWith(dests[f.task], <<"/","g",".","G","L","S">>)
        /\ EndsWith(f.path, <<"/","g",".","c","s","v">>)
        /\ f.bytes = <<"g",".","G","L","S">>

\* C28: after handle_logout (the stored credentials cleared, then the
\* session's authorization refreshed) the requests of the next operation,
\* listing, crawl or download, carry no Authorization header.
C28_NoHeaderAfterLogout ==
    [][ ( /\ lastOp.name = "logout"
          /\ lastOp'.name \in { "navigate", "crawl", "download" } )
        => \A r \in requests' : r.auth = NoHeader ]_vars

\* C29: when start_download_task cannot make the base download directory, or
\* its crawl yields no files, it emits exactly one download_error, puts no
\* task and leaves the batch counters and the registry as they were.
C29_AbortedSubmissionLeavesBatch ==
    [][ (lastOp'.name = "crawl" /\ crawled' = <<>>)
          => /\ Len(events') = 1
             /\ events'[1].file = <<>>
             /\ UNCHANGED << queue, submitted, totalFiles, completedFiles, active >> ]_vars

\* C29 witness: with a batch under way (one file counted, others queued) a
\* further start_download_task failed to make its directory.
C29_Witness ==
    /\ lastOp.name = "crawl" /\ crawled = <<>>
    /\ events = << [file |-> <<>>, error |-> OSError] >>
    /\ requests = {}
    /\ totalFiles > 1 /\ completedFiles = 1 /\ queue # <<>>

\* The same with a crawl that yields no files.
C29_WitnessNoFiles ==
    /\ lastOp.name = "crawl" /\ crawled = <<>>
    /\ Len(events) = 1 /\ events[1].error # OSError
    /\ requests # {}
    /\ totalFiles > 1 /\ completedFiles = 1 /\ queue # <<>>

\* C30: a crawl never descends into a parent link and never returns one as
\* a file, and its filter drops nothing else: on pages whose rows all parse,
\* whatever their titles, every file below the root is returned.
C30_OnlyParentLinksFiltered ==
    \A root \in Dirs :
        ( /\ Crawled(root)
          /\ ValidSession
          /\ \A d \in Dirs : StartsWith(d, root)
                                => FaultOf(remote, d) \in { "ok", "dotdot" } )
        => /\ \A r \in requests : StartsWith(r.url, root)
           /\ \A i \in 1..Len(crawled) : crawled[i].url \in RemoteFiles
           /\ FilesBelow(root) \subseteq CrawledUrls

\* The path the worker of the task put i-th writes (lines 83-84).
FinalPath(i) == GlsToCsv(dests[i])

\* C31: within one batch, distinct remote files are given distinct final
\* destination paths (relative path or basename, then .gls rewritten to
\* .csv), so no two workers of a batch write the same local file.
C31_DistinctFinalPaths ==
    \A i, j \in 1..Len(submitted) :
        ( /\ submitted[i].batch = submitted[j].batch
          /\ submitted[i].url # submitted[j].url )
        => FinalPath(i) # FinalPath(j)

====
